---- MODULE Spec2Model ----
(***************************************************************************)
(* Model of the active health-check engine of src/src/checks.c:           *)
(* process_chk (the per-server check task), set_server_down, and the two  *)
(* readiness callbacks event_srv_chk_w / event_srv_chk_r, together with   *)
(* the parts of the backend, the fd table, the kernel descriptor table    *)
(* and the sessions they read and write.                                  *)
(***************************************************************************)
EXTENDS Integers, Sequences, FiniteSets, TLC

\* ------------------------------------------------------------------ bounds
MaxNow == 4          \* the clock stops advancing here
MaxRise == 2         \* rise is drawn from 1..MaxRise
MaxFall == 2         \* fall is drawn from 1..MaxFall
MaxInter == 2        \* inter is drawn from 1..MaxInter
MaxFd == 1           \* descriptors are 0..MaxFd; global.maxsock == MaxFd

Servers == {1, 2}    \* the servers of the backend; server i is checked by task i
Sessions == {1, 2}   \* the sessions that may wait in a pending queue
Fds == 0..MaxFd
NoSrv == 0           \* sess->srv == NULL
NoFd == -1           \* s->curfd == -1, socket() == -1

global_maxsock == MaxFd

VARIABLES
  now,      \* the global current time
  srv,      \* [Servers -> struct server]
  px,       \* struct proxy: state, srv_act, srv_bck, pendconns, options
  expire,   \* [Servers -> t->expire] of the check tasks
  fdtab,    \* [Fds -> fdtab entry]
  osfd,     \* the descriptors the kernel holds open for this process
  sess,     \* [Sessions -> struct session]
  obs       \* observation of the run: the last process_chk invocation and
            \* per-server history (streaks, creation deadline)

vars == <<now, srv, px, expire, fdtab, osfd, sess, obs>>

\* ------------------------------------------------------------ small helpers
Ev(e, a) == [ev |-> e, arg |-> a]

Emit(w, e, a) == [w EXCEPT !.out = Append(@, Ev(e, a))]

Step(w, label) == [w EXCEPT !.path = Append(@, label)]

RECURSIVE SeqRemove(_, _)
SeqRemove(q, x) ==
  IF q = <<>> THEN <<>>
  ELSE IF Head(q) = x THEN SeqRemove(Tail(q), x)
  ELSE <<Head(q)>> \o SeqRemove(Tail(q), x)

SeqSet(q) == {q[i] : i \in 1..Len(q)}

CountEv(out, e) == Cardinality({i \in 1..Len(out) : out[i].ev = e})

CountEvArg(out, e, a) ==
  Cardinality({i \in 1..Len(out) : out[i].ev = e /\ out[i].arg = a})

\* tv_isle(a, b): a <= b
tv_isle(a, b) == a <= b

\* ------------------------------------------------- the world of one handler
(* A handler is a function from world to world.  The world is the program  *)
(* state the handlers touch, plus what the handler emitted (out: calls to  *)
(* the backend, the log sink, the kernel and the scheduler, in order) and  *)
(* the labels of the branches it went through (path).                      *)
World ==
  [srv |-> srv, px |-> px, expire |-> expire, fdtab |-> fdtab,
   osfd |-> osfd, sess |-> sess, out |-> <<>>, path |-> <<>>]

\* ------------------------------------------------------- backend interface
\* recount_servers(px): count the servers with SRV_RUNNING, by role
RunningOfRole(sv, bk) ==
  Cardinality({s \in Servers : sv[s].running /\ sv[s].backup = bk})

recount_servers(w) ==
  Emit([w EXCEPT !.px.srv_act = RunningOfRole(w.srv, FALSE),
                 !.px.srv_bck = RunningOfRole(w.srv, TRUE)], "recount", 0)

\* recalc_server_map(px): the load-balancing map is outside the model
recalc_server_map(w) == Emit(w, "recalc", 0)

\* pendconn_free(p): unlink p from the queue it is in and release it
pendconn_free(w, p) ==
  Emit([w EXCEPT !.px.pendconns = SeqRemove(@, p),
                 !.srv = [s \in Servers |->
                            [w.srv[s] EXCEPT !.pendconns = SeqRemove(@, p)]]],
       "free", p)

\* pendconn_from_px(px): the head of the backend-wide queue, or none
pendconn_from_px(w) ==
  IF w.px.pendconns = <<>> THEN 0 ELSE Head(w.px.pendconns)

\* srv_dynamic_maxconn(s), for a backend at or above fullconn: s->maxconn
srv_dynamic_maxconn(w, s) == w.srv[s].maxconn

\* task_wakeup(sess->task)
task_wakeup_sess(w, i) == Emit(w, "wake", i)

\* --------------------------------------------------------- set_server_down
\* the rescue that does not look at PR_O_REDISP
rescue_one_always(w, pc) ==
  LET a == [w EXCEPT !.sess[pc].flags = @ \ {"DIRECT", "ASSIGNED", "ADDR_SET"},
                     !.sess[pc].srv = NoSrv]
      b == Emit(a, "flush_cookie", pc)
      c == pendconn_free(b, pc)
      d == task_wakeup_sess(c, pc)
  IN Emit(d, "xferred", pc)

\* lines 69-80: one iteration of the rescue loop, for pending connection pc
rescue_one(w, pc) ==
  IF w.sess[pc].redisp
  THEN LET a == [w EXCEPT !.sess[pc].flags = @ \ {"DIRECT", "ASSIGNED", "ADDR_SET"},
                          !.sess[pc].srv = NoSrv]
           b == Emit(a, "flush_cookie", pc)
           c == pendconn_free(b, pc)
           d == task_wakeup_sess(c, pc)
       IN Emit(d, "xferred", pc)
  ELSE w

\* lines 68-81: FOREACH_ITEM_SAFE over the entries s->pendconns held on entry
RECURSIVE rescue_loop(_, _)
rescue_loop(w, q) ==
  IF q = <<>> THEN w ELSE rescue_loop(rescue_one(w, Head(q)), Tail(q))

\* the edge body whose EMERG test looks at srv_act only
down_edge_no_active(w, s) ==
  LET a == recount_servers(w)
      b == recalc_server_map(a)
      c == rescue_loop(Emit(b, "rescue", s), b.srv[s].pendconns)
      d == Emit(c, "ALERT", 0)
      e == IF d.px.srv_act = 0 THEN Emit(d, "EMERG", 0) ELSE d
  IN [e EXCEPT !.srv[s].down_trans = @ + 1]

\* lines 60-97: the body run when the server was at health == rise
down_edge(w, s) ==
  LET a == recount_servers(w)
      b == recalc_server_map(a)
      c == rescue_loop(Emit(b, "rescue", s), b.srv[s].pendconns)
      d == Emit(c, "ALERT", 0)
      e == IF d.px.srv_bck = 0 /\ d.px.srv_act = 0
           THEN Emit(d, "EMERG", 0) ELSE d
  IN [e EXCEPT !.srv[s].down_trans = @ + 1]

\* set_server_down that runs the edge body on every call
set_server_down_always_edge(w, s) ==
  LET a == [w EXCEPT !.srv[s].running = FALSE]
  IN [down_edge(a, s) EXCEPT !.srv[s].health = 0]

\* set_server_down that recounts before it clears SRV_RUNNING
set_server_down_recount_first(w, s) ==
  LET b == IF w.srv[s].health = w.srv[s].rise THEN down_edge(w, s) ELSE w
  IN [b EXCEPT !.srv[s].running = FALSE, !.srv[s].health = 0]

\* set_server_down that forgets to clear SRV_RUNNING
set_server_down_keeps_running(w, s) ==
  LET b == IF w.srv[s].health = w.srv[s].rise THEN down_edge(w, s) ELSE w
  IN [b EXCEPT !.srv[s].health = 0]

set_server_down(w, s) ==
  LET a == [w EXCEPT !.srv[s].running = FALSE]
      b == IF a.srv[s].health = a.srv[s].rise THEN down_edge(a, s) ELSE a
  IN [b EXCEPT !.srv[s].health = 0]

\* chk_failure with the cushion test off by one (health >= rise)
chk_failure_offbyone(w, s) ==
  IF w.srv[s].health >= w.srv[s].rise
  THEN [w EXCEPT !.srv[s].health = @ - 1, !.srv[s].failed_checks = @ + 1]
  ELSE set_server_down(w, s)

\* lines 430-435 and 497-502: a failed probe is fed to the state machine
chk_failure(w, s) ==
  IF w.srv[s].health > w.srv[s].rise
  THEN [w EXCEPT !.srv[s].health = @ - 1, !.srv[s].failed_checks = @ + 1]
  ELSE set_server_down(w, s)

\* the drain without the limit of line 461
RECURSIVE up_drain_unbounded(_, _, _)
up_drain_unbounded(w, s, xferred) ==
  LET p == pendconn_from_px(w)
  IN IF p = 0 THEN w
     ELSE LET a == [w EXCEPT !.sess[p].srv = s]
              b == pendconn_free(a, p)
              c == task_wakeup_sess(b, p)
          IN up_drain_unbounded(c, s, xferred + 1)

\* lines 461-472: take pending connections from the backend queue
RECURSIVE up_drain(_, _, _)
up_drain(w, s, xferred) ==
  IF w.srv[s].maxconn = 0 \/ xferred < srv_dynamic_maxconn(w, s)
  THEN LET p == pendconn_from_px(w)
       IN IF p = 0 THEN w
          ELSE LET a == [w EXCEPT !.sess[p].srv = s]
                   b == pendconn_free(a, p)
                   c == task_wakeup_sess(b, p)
               IN up_drain(c, s, xferred + 1)
  ELSE w

\* lines 452-484: the body run when health has just reached rise
up_edge(w, s) ==
  LET a == recount_servers(w)
      b == recalc_server_map(a)
      c == up_drain(Emit(b, "drain", s), s, 0)
  IN Emit(c, "NOTICE", 0)

\* chk_success without the clamp of line 486
chk_success_noclamp(w, s) ==
  LET a == [w EXCEPT !.srv[s].health = @ + 1]
  IN IF a.srv[s].health >= a.srv[s].rise
     THEN LET b == [a EXCEPT !.srv[s].running = TRUE]
          IN IF b.srv[s].health = b.srv[s].rise THEN up_edge(b, s) ELSE b
     ELSE a

\* chk_success that steps by one and clamps: min(health + 1, rise + fall - 1)
chk_success_min(w, s) ==
  LET a == [w EXCEPT !.srv[s].health = @ + 1]
      cap == a.srv[s].rise + a.srv[s].fall - 1
  IN IF a.srv[s].health >= a.srv[s].rise
     THEN LET b == [a EXCEPT !.srv[s].running = TRUE]
              c == IF b.srv[s].health = b.srv[s].rise THEN up_edge(b, s) ELSE b
          IN [c EXCEPT !.srv[s].health = IF @ > cap THEN cap ELSE @]
     ELSE a

\* lines 448-487: a successful probe is fed to the state machine
chk_success(w, s) ==
  LET a == [w EXCEPT !.srv[s].health = @ + 1]
  IN IF a.srv[s].health >= a.srv[s].rise
     THEN LET b == [a EXCEPT !.srv[s].running = TRUE]
              c == IF b.srv[s].health = b.srv[s].rise THEN up_edge(b, s) ELSE b
          IN [c EXCEPT !.srv[s].health = c.srv[s].rise + c.srv[s].fall - 1]
     ELSE a

\* ------------------------------------------------------ kernel and fd table
ClosedEntry(o) == [owner |-> o, state |-> "FD_STCLOSE", rd |-> FALSE, wr |-> FALSE]

\* close(fd): releases the descriptor; EBADF when the process does not hold it
sys_close(w, fd) ==
  IF fd \in w.osfd
  THEN Emit([w EXCEPT !.osfd = @ \ {fd}], "close", fd)
  ELSE Emit(w, "close_EBADF", fd)

\* fd_delete(fd): stop polling fd, close it, mark the entry FD_STCLOSE
fd_delete(w, fd) ==
  LET a == sys_close(w, fd)
  IN [a EXCEPT !.fdtab[fd] = ClosedEntry(a.fdtab[fd].owner)]

\* an if in place of the while: one interval is added at most
advance_once(e, n, inter) == IF tv_isle(e, n) THEN e + inter ELSE e

\* the loop with tv_islt in place of tv_isle: stops at expire == now
RECURSIVE advance_strict(_, _, _)
advance_strict(e, n, inter) ==
  IF e < n THEN advance_strict(e + inter, n, inter) ELSE e

\* lines 301-302, 424-425, 439-440, 490-491, 505-506:
\* while (tv_isle(&t->expire, &now)) tv_ms_add(&t->expire, &t->expire, s->inter);
RECURSIVE advance(_, _, _)
advance(e, n, inter) == IF tv_isle(e, n) THEN advance(e + inter, n, inter) ELSE e

\* the deadline taken from now instead of from the previous deadline
rephase_from_now(w, s) ==
  [w EXCEPT !.expire[s] = IF tv_isle(@, now) THEN now + w.srv[s].inter ELSE @]

rephase(w, s) == [w EXCEPT !.expire[s] = advance(@, now, w.srv[s].inter)]

\* ------------------------------------------------------------- process_chk
\* The outcomes of the system calls of one invocation.
SockResults == {NoFd} \cup Fds
ConnResults == {"ok", "EINPROGRESS", "EAGAIN", "ECONNREFUSED"}
AllChkInputs ==
  [sock : SockResults, fcntl_ok : BOOLEAN, nodelay_ok : BOOLEAN,
   bind_ok : BOOLEAN, conn : ConnResults]

\* A call that is not reached has no outcome: its field keeps the first value.
Reached(in) ==
  /\ (in.sock = NoFd \/ in.sock >= global_maxsock) => in.fcntl_ok
  /\ ~in.fcntl_ok => in.nodelay_ok
  /\ (in.sock = NoFd \/ in.sock >= global_maxsock \/ ~in.fcntl_ok \/ ~in.nodelay_ok)
       => in.bind_ok
  /\ (in.sock = NoFd \/ in.sock >= global_maxsock \/ ~in.fcntl_ok \/ ~in.nodelay_ok
       \/ ~in.bind_ok) => in.conn = "ok"

ChkInputs == {in \in AllChkInputs : Reached(in)}

\* the invocation that makes no system call
NoCall ==
  [sock |-> NoFd, fcntl_ok |-> TRUE, nodelay_ok |-> TRUE, bind_ok |-> TRUE,
   conn |-> "ok"]

\* lines 331-388: bind to the server's source address, else to the proxy's
chk_bind(w, s, in) ==
  IF w.srv[s].bind_src
  THEN IF ~in.bind_ok
       THEN Emit([w EXCEPT !.srv[s].result = -1], "Alert_bind", s)
       ELSE w
  ELSE IF w.px.bind_src
       THEN IF ~in.bind_ok
            THEN Emit([w EXCEPT !.srv[s].result = -1], "Alert_bind", s)
            ELSE w
       ELSE w

\* the registration that leaves curfd at -1
chk_register_nocurfd(w, s, fd) ==
  LET a == [w EXCEPT !.fdtab[fd] = [owner |-> s, state |-> "FD_STCONN",
                                    rd |-> FALSE, wr |-> TRUE]]
  IN Step([a EXCEPT !.expire[s] = now + a.srv[s].inter], "started")

\* lines 396-412: the connection is in progress or established
chk_register(w, s, fd) ==
  LET a == [w EXCEPT !.srv[s].curfd = fd,
                     !.fdtab[fd] = [owner |-> s, state |-> "FD_STCONN",
                                    rd |-> FALSE, wr |-> TRUE]]
  IN Step([a EXCEPT !.expire[s] = now + a.srv[s].inter], "started")

\* lines 390-417
chk_connect(w, s, fd, in) ==
  IF w.srv[s].result = 0
  THEN IF in.conn \in {"ok", "EINPROGRESS"}
       THEN chk_register(w, s, fd)
       ELSE IF in.conn \notin {"EALREADY", "EISCONN", "EAGAIN"}
            THEN [w EXCEPT !.srv[s].result = -1]
            ELSE w
  ELSE w

\* the socket set-up whose own failures are stored as result = -1
chk_socket_fail_counts(w, s, in) ==
  LET fd == in.sock
  IN IF fd # NoFd
     THEN LET a == [w EXCEPT !.osfd = @ \cup {fd}]
              b == IF fd < global_maxsock /\ in.fcntl_ok /\ in.nodelay_ok
                   THEN chk_connect(chk_bind(a, s, in), s, fd, in)
                   ELSE [a EXCEPT !.srv[s].result = -1]
          IN sys_close(b, fd)
     ELSE [w EXCEPT !.srv[s].result = -1]

\* lines 310-420: socket(), its options, bind, connect, and the close(fd)
\* that ends the block
chk_socket(w, s, in) ==
  LET fd == in.sock
  IN IF fd # NoFd
     THEN LET a == [w EXCEPT !.osfd = @ \cup {fd}]
              b == IF fd < global_maxsock /\ in.fcntl_ok /\ in.nodelay_ok
                   THEN chk_connect(chk_bind(a, s, in), s, fd, in)
                   ELSE a
          IN sys_close(b, fd)
     ELSE w

\* line 309 left out
chk_reset_missing(w, s) == w

\* line 309: s->result = 0
chk_reset(w, s) == [w EXCEPT !.srv[s].result = 0]

\* the test of line 494 without the deadline
chk_expired_result_only(w, s) == w.srv[s].result < 0

\* the test of line 494 that ignores the deadline of a stopped proxy
chk_expired_unless_stopped(w, s) ==
  w.srv[s].result < 0 \/ (tv_isle(w.expire[s], now) /\ w.px.state # "PR_STSTOPPED")

\* the test of line 494 one tick early
chk_expired_early(w, s) == w.srv[s].result < 0 \/ tv_isle(w.expire[s], now + 1)

\* the test of line 494 without the result
chk_expired_deadline_only(w, s) == tv_isle(w.expire[s], now)

\* line 494: s->result < 0 || tv_isle(&t->expire, &now)
chk_expired(w, s) == w.srv[s].result < 0 \/ tv_isle(w.expire[s], now)

\* lines 287-516, from the label new_chk to the return
RECURSIVE new_chk(_, _, _)
new_chk(w, s, in) ==
  LET fd == w.srv[s].curfd
  IN IF fd < 0
     THEN IF ~tv_isle(w.expire[s], now)
          THEN Step(w, "notyet")                                   \* 291-295
          ELSE IF ~w.srv[s].checked \/ w.px.state = "PR_STSTOPPED"
               THEN Step(rephase(w, s), "disabled")                \* 300-306
               ELSE LET a == chk_reset(w, s)                       \* 309
                        b == chk_socket(Step(a, "new"), s, in)
                    IN IF b.srv[s].result = 0
                       THEN new_chk(rephase(Step(b, "nothing"), s), s, in)   \* 422-427
                       ELSE new_chk(rephase(chk_failure(Step(b, "syncfail"), s), s),
                                    s, in)                         \* 429-441
     ELSE IF w.srv[s].result > 0
          THEN LET a == chk_success(Step(w, "success"), s)         \* 446-487
                   b == [a EXCEPT !.srv[s].curfd = -1]
                   c == fd_delete(b, fd)
               IN new_chk(rephase(c, s), s, in)                    \* 488-492
          ELSE IF chk_expired(w, s)
               THEN LET a == chk_failure(Step(w, IF w.srv[s].result < 0
                                                 THEN "failure" ELSE "timeout"), s)  \* 494-502
                        b == [a EXCEPT !.srv[s].curfd = -1]
                        c == fd_delete(b, fd)
                    IN new_chk(rephase(c, s), s, in)               \* 503-507
               ELSE Step([w EXCEPT !.srv[s].result = 0], "wait")   \* 509-514

\* ------------------------------------------------------------- observation
InPath(path, label) == \E i \in 1..Len(path) : path[i] = label

FedFailure(path) ==
  InPath(path, "failure") \/ InPath(path, "timeout") \/ InPath(path, "syncfail")

FedSuccess(path) == InPath(path, "success")

SteadyUp(sv) == sv.running /\ sv.health = sv.rise + sv.fall - 1

SteadyDown(sv) == ~sv.running /\ sv.health = 0

\* consecutive failed probes fed since the server was last at steady UP
\* (-1: the run of failures did not start at steady UP, or is over)
NextFails(f, sv, path) ==
  IF ~(FedFailure(path) \/ FedSuccess(path)) THEN f
  ELSE IF SteadyUp(sv) THEN 0
  ELSE IF FedFailure(path) /\ f >= 0 /\ f < sv.fall THEN f + 1
  ELSE -1

\* consecutive successful probes fed since the server was last at steady DOWN
NextSuccs(c, sv, path) ==
  IF ~(FedFailure(path) \/ FedSuccess(path)) THEN c
  ELSE IF SteadyDown(sv) THEN 0
  ELSE IF FedSuccess(path) /\ c >= 0 /\ c < sv.rise THEN c + 1
  ELSE -1

\* probes of a server that were started and are not consumed yet
Consumed(path) ==
  InPath(path, "success") \/ InPath(path, "failure") \/ InPath(path, "timeout")

NextProbes(n, path) ==
  n - (IF Consumed(path) THEN 1 ELSE 0) + (IF InPath(path, "started") THEN 1 ELSE 0)

\* what is kept of the last invocation once another handler has run
Stale(o) ==
  [o EXCEPT !.fresh = FALSE, !.who = 0, !.path = <<>>, !.out = <<>>,
            !.e_in = 0, !.pre = <<>>, !.sess_in = <<>>, !.probes_in = 0]

\* what process_chk(s) left behind: w is the world on return; e_in, pre and
\* sess_in are the deadline, the server and the sessions it was entered with
Observe(o, s, w) ==
  [fresh |-> TRUE, who |-> s, path |-> w.path, out |-> w.out,
   e_in |-> expire[s], pre |-> srv[s], sess_in |-> sess,
   fails |-> [o.fails EXCEPT ![s] = NextFails(@, w.srv[s], w.path)],
   succs |-> [o.succs EXCEPT ![s] = NextSuccs(@, w.srv[s], w.path)],
   expire0 |-> o.expire0,
   base |-> [o.base EXCEPT ![s] = IF InPath(w.path, "started") THEN now ELSE @],
   probes_in |-> o.probes[s],
   probes |-> [o.probes EXCEPT ![s] = NextProbes(@, w.path)]]

\* ------------------------------------------------------------------ actions
Commit(w) ==
  /\ srv' = w.srv
  /\ px' = w.px
  /\ expire' = w.expire
  /\ fdtab' = w.fdtab
  /\ osfd' = w.osfd
  /\ sess' = w.sess

\* the scheduler runs the check task of server s
\* lines 289-309: the invocation reaches socket()
StartsProbe(s) ==
  /\ srv[s].curfd < 0
  /\ tv_isle(expire[s], now)
  /\ srv[s].checked
  /\ px.state # "PR_STSTOPPED"

process_chk(s) ==
  /\ s \in DOMAIN expire
  /\ \E in \in IF StartsProbe(s) THEN ChkInputs ELSE {NoCall} :
       /\ in.sock \notin osfd
       /\ \E w \in {new_chk(World, s, in)} :
            /\ Commit(w)
            /\ obs' = Observe(obs, s, w)
  /\ UNCHANGED now

\* --------------------------------------------------------- event_srv_chk_w
SendResults == {"full", "EAGAIN", "error"}
ReconnResults == {"connected", "pending", "error"}
WrInputs == [err : BOOLEAN, snd : SendResults, conn : ReconnResults]

\* out_wakeup / out_nowake, lines 182-187
w_done(w, fd) == [w EXCEPT !.fdtab[fd].wr = FALSE]

\* out_error, lines 193-196
w_error(w, fd, s) ==
  w_done([w EXCEPT !.srv[s].result = -1, !.fdtab[fd].state = "FD_STERROR"], fd)

\* lines 111-197
chk_w(w, fd, in) ==
  LET s == w.fdtab[fd].owner
  IN IF w.fdtab[fd].state = "FD_STERROR" \/ in.err
     THEN w_error(w, fd, s)                                        \* 117-118
     ELSE IF w.srv[s].result # -1
          THEN IF w.px.chk # "TCP"
               THEN IF in.snd = "full"
                    THEN w_done([w EXCEPT !.fdtab[fd].rd = TRUE], fd)   \* 143-146
                    ELSE IF in.snd = "EAGAIN"
                         THEN w                                    \* out_poll
                         ELSE w_error(w, fd, s)
               ELSE IF in.conn = "pending"
                    THEN w                                         \* 171-172
                    ELSE IF in.conn = "error"
                         THEN w_error(w, fd, s)                    \* 174-175
                         ELSE w_done([w EXCEPT !.srv[s].result = 1], fd)  \* 178-179
          ELSE w_done(w, fd)                                       \* 122, 182

\* the poller reports fd writable (or in error) while write polling is on
event_srv_chk_w(fd) ==
  /\ fdtab[fd].state # "FD_STCLOSE"
  /\ fdtab[fd].wr
  /\ \E in \in WrInputs : Commit(chk_w(World, fd, in))
  /\ obs' = Stale(obs)
  /\ UNCHANGED now

\* --------------------------------------------------------- event_srv_chk_r
\* recv(): nothing yet, a reply the configured check accepts, or anything else
ReplyKinds == {"EAGAIN", "accepted", "rejected"}
RdInputs == [err : BOOLEAN, reply : ReplyKinds]

\* out_wakeup, lines 267-271
r_done(w, fd) == [w EXCEPT !.fdtab[fd].rd = FALSE]

\* lines 209-272
chk_r(w, fd, in) ==
  LET s == w.fdtab[fd].owner
  IN IF w.fdtab[fd].state = "FD_STERROR" \/ in.err
     THEN r_done([w EXCEPT !.srv[s].result = -1,
                           !.fdtab[fd].state = "FD_STERROR"], fd)  \* 221-229
     ELSE IF in.reply = "EAGAIN"
          THEN w                                                   \* 240-244
          ELSE LET result == IF in.reply = "accepted" /\ w.px.chk # "TCP"
                             THEN 1 ELSE -1                        \* 246-259
                   a == IF result = -1
                        THEN [w EXCEPT !.fdtab[fd].state = "FD_STERROR"]
                        ELSE w                                     \* 261-262
                   b == IF a.srv[s].result # -1
                        THEN [a EXCEPT !.srv[s].result = result]
                        ELSE a                                     \* 264-265
               IN r_done(b, fd)

\* the poller reports fd readable (or in error) while read polling is on
event_srv_chk_r(fd) ==
  /\ fdtab[fd].state # "FD_STCLOSE"
  /\ fdtab[fd].rd
  /\ \E in \in RdInputs : Commit(chk_r(World, fd, in))
  /\ obs' = Stale(obs)
  /\ UNCHANGED now

\* -------------------------------------------------------------- environment
\* the clock advances
Tick ==
  /\ now < MaxNow
  /\ now' = now + 1
  /\ obs' = Stale(obs)
  /\ UNCHANGED <<srv, px, expire, fdtab, osfd, sess>>

\* the backend is stopped
StopProxy ==
  /\ px.state # "PR_STSTOPPED"
  /\ px' = [px EXCEPT !.state = "PR_STSTOPPED"]
  /\ obs' = Stale(obs)
  /\ UNCHANGED <<now, srv, expire, fdtab, osfd, sess>>

Queued(i) ==
  \/ i \in SeqSet(px.pendconns)
  \/ \E s \in Servers : i \in SeqSet(srv[s].pendconns)

\* request routing queues session i on server s
EnqueueSrv(i, s) ==
  /\ ~Queued(i)
  /\ srv' = [srv EXCEPT ![s].pendconns = Append(@, i)]
  /\ sess' = [sess EXCEPT ![i].srv = s,
                          ![i].flags = {"DIRECT", "ASSIGNED", "ADDR_SET"}]
  /\ obs' = Stale(obs)
  /\ UNCHANGED <<now, px, expire, fdtab, osfd>>

\* request routing queues session i on the backend
EnqueuePx(i) ==
  /\ ~Queued(i)
  /\ px' = [px EXCEPT !.pendconns = Append(@, i)]
  /\ sess' = [sess EXCEPT ![i].srv = NoSrv, ![i].flags = {}]
  /\ obs' = Stale(obs)
  /\ UNCHANGED <<now, srv, expire, fdtab, osfd>>

\* ------------------------------------------------------------ initial state
\* A server as the configuration leaves it; one with a check task starts at
\* any health its thresholds allow, one without stays at health == rise, UP.
InitServer(r, f, int, h, ck, bk, bs, mc) ==
  [rise |-> r, fall |-> f, inter |-> int, health |-> h, running |-> h >= r,
   checked |-> ck, backup |-> bk, bind_src |-> bs, maxconn |-> mc,
   result |-> 0, curfd |-> NoFd, failed_checks |-> 0, down_trans |-> 0,
   pendconns |-> <<>>]

\* t0: the first deadline of the tasks, which is when the model starts;
\* tasks: the servers that have a check task; the other arguments are the
\* sets the configuration is drawn from.
InitWith(t0, tasks, rises, falls, inters, checkeds, maxconns, chks) ==
  /\ now = t0
  /\ \E r \in rises, f \in falls, int \in inters, ck \in checkeds, mc \in maxconns :
       \E h \in [tasks -> 0..(r + f - 1)] :
         srv = [s \in Servers |->
                  IF s \in tasks
                  THEN InitServer(r, f, int, h[s], ck, s = 2, s = 1, mc)
                  ELSE InitServer(r, f, int, r, FALSE, s = 2, s = 1, mc)]
  /\ \E c \in chks :
       px = [state |-> "PR_STRUN", chk |-> c, bind_src |-> TRUE,
             srv_act |-> RunningOfRole(srv, FALSE),
             srv_bck |-> RunningOfRole(srv, TRUE), pendconns |-> <<>>]
  /\ expire = [s \in tasks |-> t0]
  /\ fdtab = [fd \in Fds |-> ClosedEntry(0)]
  /\ osfd = {}
  /\ sess = [i \in Sessions |-> [srv |-> NoSrv, flags |-> {}, redisp |-> i = 1]]
  /\ obs = [fresh |-> FALSE, who |-> 0, path |-> <<>>, out |-> <<>>, e_in |-> 0,
            pre |-> <<>>, sess_in |-> <<>>,
            fails |-> [s \in Servers |-> IF SteadyUp(srv[s]) THEN 0 ELSE -1],
            succs |-> [s \in Servers |-> IF SteadyDown(srv[s]) THEN 0 ELSE -1],
            expire0 |-> expire,
            base |-> expire,
            probes_in |-> 0,
            probes |-> [s \in Servers |-> 0]]

\* one checked server, every configuration, no session waiting
Init ==
  InitWith(0, {1}, 1..MaxRise, 1..MaxFall, 1..MaxInter, BOOLEAN, {1}, {"TCP", "HTTP"})

\* both servers checked, the shortest thresholds
InitBackend ==
  InitWith(MaxNow - 2, Servers, {1}, {1}, {1}, {TRUE}, {1}, {"HTTP"})

\* one checked server, sessions come and wait
InitQueue ==
  InitWith(0, {1}, {1}, {1}, {1}, {TRUE}, {0, 1}, {"HTTP"})

NextCore ==
  \/ \E s \in Servers : process_chk(s)
  \/ \E fd \in Fds : event_srv_chk_w(fd)
  \/ \E fd \in Fds : event_srv_chk_r(fd)
  \/ Tick
  \/ StopProxy

NextQueue ==
  \/ \E s \in Servers : process_chk(s)
  \/ \E fd \in Fds : event_srv_chk_w(fd)
  \/ \E fd \in Fds : event_srv_chk_r(fd)
  \/ Tick
  \/ \E i \in Sessions, s \in Servers : EnqueueSrv(i, s)
  \/ \E i \in Sessions : EnqueuePx(i)

Spec == Init /\ [][NextCore]_vars

NextBackend ==
  \/ \E s \in Servers : process_chk(s)
  \/ \E fd \in Fds : event_srv_chk_w(fd)
  \/ \E fd \in Fds : event_srv_chk_r(fd)
  \/ Tick

SpecBackend == InitBackend /\ [][NextBackend]_vars

SpecQueue == InitQueue /\ [][NextQueue]_vars

\* the timer wheel runs the task of server s, whose probe is in flight and
\* whose deadline has passed
RunExpired(s) ==
  /\ s \in DOMAIN expire
  /\ srv[s].curfd # NoFd
  /\ tv_isle(expire[s], now)
  /\ process_chk(s)

\* one checked server with the shortest thresholds, every interval
InitLive ==
  InitWith(0, {1}, {1}, {1}, 1..MaxInter, {TRUE}, {1}, {"TCP", "HTTP"})

\* time keeps advancing (up to the end of the clock) and the timer wheel
\* runs a task whose deadline has passed; readiness callbacks and the stop of
\* the proxy may or may not happen
SpecLive ==
  /\ InitLive
  /\ [][NextCore]_vars
  /\ WF_vars(Tick)
  /\ \A s \in Servers : WF_vars(RunExpired(s))

\* the end-to-end scenarios: one checked server with rise = 2, fall = 3 and
\* one interval per tick, HTTP check, from any health
InitScenario ==
  InitWith(0, {1}, {2}, {3}, {1}, {TRUE}, {1}, {"HTTP"})

SpecScenario == InitScenario /\ [][NextBackend]_vars

\* =================================================================== claims
\* The invocation that has just returned, if any.
Returned(s) == obs.fresh /\ obs.who = s

Cap(sv) == sv.rise + sv.fall - 1

\* what the invocation did to the liveness of its server
WentDown(s) == obs.pre.running /\ ~srv[s].running

WentUp(s) == ~obs.pre.running /\ srv[s].running

DownEffects(s) ==
  /\ srv[s].down_trans = obs.pre.down_trans + 1
  /\ CountEv(obs.out, "ALERT") = 1

UpEffects(s) ==
  /\ CountEv(obs.out, "drain") = 1
  /\ CountEv(obs.out, "NOTICE") = 1

NoEdge(s) ==
  /\ srv[s].running = obs.pre.running
  /\ srv[s].down_trans = obs.pre.down_trans
  /\ CountEv(obs.out, "ALERT") = 0
  /\ CountEv(obs.out, "NOTICE") = 0

\* C1: hysteresis.  Counting the failed probes fed since the server was last
\* at steady UP (health == rise + fall - 1), the DOWN edge (RUNNING cleared,
\* down_trans incremented, ALERT logged) happens on the fall-th of them and on
\* none before; counting the successes fed since it was last at steady DOWN
\* (health == 0), the UP edge (RUNNING set, drain and NOTICE log) happens on
\* the rise-th and on none before.  A success on an UP server restores the
\* full cushion and a failure on a DOWN server resets health to 0, both
\* without an edge.
C1_Hysteresis ==
  \A s \in Servers :
    Returned(s) =>
      /\ (FedFailure(obs.path) /\ obs.fails[s] = srv[s].fall)
           => (WentDown(s) /\ DownEffects(s))
      /\ (FedFailure(obs.path) /\ obs.fails[s] \in 1..(srv[s].fall - 1))
           => NoEdge(s)
      /\ (FedSuccess(obs.path) /\ obs.succs[s] = srv[s].rise)
           => (WentUp(s) /\ UpEffects(s))
      /\ (FedSuccess(obs.path) /\ obs.succs[s] \in 1..(srv[s].rise - 1))
           => NoEdge(s)
      /\ WentDown(s) => obs.fails[s] \in {-1, srv[s].fall}
      /\ WentUp(s) => obs.succs[s] \in {-1, srv[s].rise}
      /\ (FedSuccess(obs.path) /\ obs.pre.running)
           => (SteadyUp(srv[s]) /\ NoEdge(s))
      /\ (FedFailure(obs.path) /\ ~obs.pre.running)
           => (SteadyDown(srv[s]) /\ NoEdge(s))

\* with rise = fall = 2: a failure that used the cushion, then the DOWN edge,
\* then the UP edge on the second of two successes after steady DOWN
C1_Witness ==
  /\ Returned(1)
  /\ srv[1].fall = 2 /\ srv[1].rise = 2
  /\ srv[1].failed_checks >= 1 /\ srv[1].down_trans >= 1
  /\ obs.succs[1] = 2 /\ WentUp(1)

\* C2: between invocations, RUNNING is set iff health >= rise.
C2_RunningIffHealth ==
  \A s \in Servers : srv[s].running <=> (srv[s].health >= srv[s].rise)

\* the server has gone DOWN and has come back UP
C2_Witness ==
  /\ srv[1].down_trans >= 1
  /\ Returned(1) /\ WentUp(1)

\* C3: health stays within [0, rise + fall - 1].
C3_HealthRange ==
  \A s \in Servers : srv[s].health >= 0 /\ srv[s].health <= Cap(srv[s])

\* a success fed to a server already at the cap, and a failure fed to one at 0
C3_Witness ==
  /\ Returned(1)
  /\ \/ FedSuccess(obs.path) /\ obs.pre.health = Cap(obs.pre)
     \/ FedFailure(obs.path) /\ obs.pre.health = 0

Registered(fd) == fdtab[fd].state # "FD_STCLOSE"

\* C4 (as claimed): while curfd names a descriptor, the kernel still holds it
\* open and it is the one fd-table entry registered for this task; and no
\* invocation closes a descriptor the process does not hold (a second close).

C4_Claim ==
  /\ \A s \in DOMAIN expire :
       srv[s].curfd # NoFd =>
         /\ srv[s].curfd \in osfd
         /\ {fd \in Fds : Registered(fd) /\ fdtab[fd].owner = s} = {srv[s].curfd}
  /\ obs.fresh => CountEv(obs.out, "close_EBADF") = 0

\* C5 (as claimed): after every return of process_chk, result == unset.
C5_Claim ==
  \A s \in Servers : Returned(s) => srv[s].result = 0

\* C5 (amended): after a return of process_chk, result is unset when a probe
\* is in flight (just started or still pending), after a socket set-up that
\* did nothing and after a probe consumed on timeout; after a probe consumed
\* as success or failure and after a synchronous failure it keeps the
\* consumed value (1 or -1); a spurious wake-up and a disabled tick leave it
\* as it was.
C5_Amended ==
  \A s \in Servers :
    Returned(s) =>
      /\ srv[s].curfd # NoFd => srv[s].result = 0
      /\ (InPath(obs.path, "new") /\ ~InPath(obs.path, "syncfail"))
           => srv[s].result = 0
      /\ InPath(obs.path, "timeout") => srv[s].result = 0
      /\ InPath(obs.path, "success") => srv[s].result = 1
      /\ (InPath(obs.path, "failure") \/ InPath(obs.path, "syncfail"))
           => srv[s].result = -1
      /\ obs.path \in {<<"notyet">>, <<"disabled">>}
           => srv[s].result = obs.pre.result

\* a success was consumed and its result is still there on return
C5_Witness ==
  Returned(1) /\ InPath(obs.path, "success") /\ srv[1].result = 1

EdgeEvents == {"recount", "recalc", "rescue", "drain", "ALERT", "NOTICE", "EMERG"}

EventCounts(evs, n) == \A e \in evs : CountEv(obs.out, e) = n

C6_Post ==
  \A s \in Servers :
    Returned(s) =>
      /\ WentDown(s) =>
           /\ srv[s].down_trans = obs.pre.down_trans + 1
           /\ EventCounts({"recount", "recalc", "rescue", "ALERT"}, 1)
           /\ EventCounts({"drain", "NOTICE"}, 0)
      /\ WentUp(s) =>
           /\ srv[s].down_trans = obs.pre.down_trans
           /\ EventCounts({"recount", "recalc", "drain", "NOTICE"}, 1)
           /\ EventCounts({"rescue", "ALERT", "EMERG"}, 0)
      /\ srv[s].running = obs.pre.running =>
           /\ srv[s].down_trans = obs.pre.down_trans
           /\ EventCounts(EdgeEvents, 0)

C6_Step ==
  /\ C6_Post'
  /\ \A t \in Servers :
       (~obs'.fresh \/ obs'.who # t) =>
         /\ srv'[t].running = srv[t].running
         /\ srv'[t].down_trans = srv[t].down_trans

\* C6: edge effects run once per liveness transition and never otherwise.
\* An invocation that clears RUNNING increments down_trans and runs recount,
\* map recalc, queue rescue and the ALERT log once each; one that sets RUNNING
\* runs recount, map recalc, queue drain and the NOTICE log once each; one
\* that leaves RUNNING as it was runs none of them; and nothing but the
\* server's own check task changes its RUNNING flag or its down_trans.
C6_EdgeEffectsOnce == [][C6_Step]_vars

\* after a DOWN edge, a failure fed to the server when it had partially
\* recovered (0 < health < rise)
C6_Witness ==
  /\ Returned(1)
  /\ srv[1].down_trans >= 1
  /\ FedFailure(obs.path)
  /\ obs.pre.health > 0 /\ obs.pre.health < obs.pre.rise

Sticky == {"DIRECT", "ASSIGNED", "ADDR_SET"}

NotRedisp(i) == ~sess[i].redisp

\* C7: right after a DOWN edge on S, every pending connection that was
\* queued on S and whose session's backend has REDISP is queued nowhere, its
\* session has DIRECT/ASSIGNED/ADDR_SET cleared and srv == none, and it was
\* freed once and its task woken once; the others are still queued on S in
\* their order, their sessions untouched and not woken.
C7_Rescue ==
  \A s \in Servers :
    (Returned(s) /\ WentDown(s)) =>
      /\ srv[s].pendconns = SelectSeq(obs.pre.pendconns, NotRedisp)
      /\ \A i \in SeqSet(obs.pre.pendconns) :
           IF sess[i].redisp
           THEN /\ ~Queued(i)
                /\ sess[i].flags \cap Sticky = {}
                /\ sess[i].srv = NoSrv
                /\ CountEvArg(obs.out, "free", i) = 1
                /\ CountEvArg(obs.out, "wake", i) = 1
           ELSE /\ sess[i] = obs.sess_in[i]
                /\ CountEvArg(obs.out, "free", i) = 0
                /\ CountEvArg(obs.out, "wake", i) = 0

\* a DOWN edge on a server with both sessions queued on it, the one without
\* REDISP ahead of the one with it
C7_Witness ==
  /\ Returned(1) /\ WentDown(1)
  /\ obs.pre.pendconns = <<2, 1>>
  /\ srv[1].pendconns = <<2>>

\* C8: between task invocations, srv_act is the number of non-backup servers
\* with RUNNING set and srv_bck the number of backup servers with RUNNING set.
C8_Counters ==
  /\ px.srv_act = Cardinality({s \in Servers : srv[s].running /\ ~srv[s].backup})
  /\ px.srv_bck = Cardinality({s \in Servers : srv[s].running /\ srv[s].backup})

\* both servers have gone DOWN, the active one is UP again, the backup is not
C8_Witness ==
  /\ srv[1].down_trans >= 1 /\ srv[2].down_trans >= 1
  /\ srv[1].running /\ ~srv[2].running
  /\ px.srv_act = 1 /\ px.srv_bck = 0

\* C9: after every return of process_chk the deadline is in the future.
C9_DeadlineFuture ==
  \A s \in DOMAIN expire : Returned(s) => expire[s] > now

\* a probe consumed on timeout when now had run two intervals past the deadline
C9_Witness ==
  /\ Returned(1)
  /\ InPath(obs.path, "timeout")
  /\ now >= obs.e_in + 2 * srv[1].inter

Multiples == 0..(MaxNow + MaxInter + 1)

\* C10 (as claimed): after any tick, expire == initial_expire + k*inter, k >= 1.
C10_Claim ==
  \A s \in DOMAIN expire :
    Returned(s) =>
      \E k \in Multiples \ {0} : expire[s] = obs.expire0[s] + k * srv[s].inter

\* C10 (amended): after any tick at or after the first deadline,
\* expire == base + k*inter for some k >= 1, where base is the deadline the
\* task was created with until a probe starts and the value of now at the
\* latest probe start afterwards (line 410 sets expire = now + inter).
C10_Amended ==
  \A s \in DOMAIN expire :
    Returned(s) =>
      \E k \in Multiples \ {0} : expire[s] = obs.base[s] + k * srv[s].inter

\* a probe started off the phase of the creation deadline, and a later tick
\* advanced the deadline from there
C10_Witness ==
  /\ Returned(1)
  /\ srv[1].inter = 2
  /\ (obs.base[1] - obs.expire0[1]) % 2 = 1
  /\ expire[1] >= obs.base[1] + 2 * srv[1].inter

\* C11: a single probe in flight per server.  The number of probes of a
\* server that were started and not yet consumed is 1 exactly while
\* curfd != none and 0 otherwise; an invocation entered with curfd != none
\* neither reaches the result reset and socket() nor changes an unset result;
\* one that reaches them was entered with curfd == none and with every
\* earlier probe of the server consumed.
C11_SingleInFlight ==
  /\ \A s \in Servers :
       /\ obs.probes[s] \in {0, 1}
       /\ (obs.probes[s] = 1) <=> (srv[s].curfd # NoFd)
  /\ \A s \in Servers :
       Returned(s) =>
         /\ obs.pre.curfd # NoFd =>
              /\ ~InPath(obs.path, "new")
              /\ obs.path = <<"wait">> => srv[s].result = obs.pre.result
         /\ InPath(obs.path, "new") =>
              /\ obs.pre.curfd = NoFd
              /\ obs.probes_in = 0

\* a second probe has started, after the first was consumed on a result a
\* readiness callback had set
C11_Witness ==
  /\ Returned(1)
  /\ InPath(obs.path, "started")
  /\ srv[1].health # obs.pre.health \/ srv[1].failed_checks + srv[1].down_trans >= 1

\* the server a failed probe leaves behind, from the server it was fed to
AfterFailure(pre, sv) ==
  /\ sv.curfd = NoFd
  /\ IF pre.health > pre.rise
     THEN /\ sv.health = pre.health - 1
          /\ sv.failed_checks = pre.failed_checks + 1
          /\ sv.running = pre.running
          /\ sv.down_trans = pre.down_trans
     ELSE /\ sv.health = 0
          /\ ~sv.running
          /\ sv.failed_checks = pre.failed_checks
          /\ sv.down_trans = pre.down_trans + (IF pre.health = pre.rise THEN 1 ELSE 0)

LateEntry(s) == Returned(s) /\ obs.pre.curfd # NoFd /\ obs.e_in <= now

\* C12 (as claimed): every entry with a probe in flight and expire <= now
\* counts that probe as a failed probe.
C12_Claim ==
  \A s \in Servers :
    LateEntry(s) => (FedFailure(obs.path) /\ AfterFailure(obs.pre, srv[s]))

\* C12 (amended): an entry with a probe in flight and expire <= now counts
\* the probe as a failed probe, with the same effect on health, RUNNING,
\* failed_checks and down_trans whether result is failure or still unset,
\* unless a readiness callback has left result == success: that probe is
\* counted as a success although its deadline has passed.
C12_Amended ==
  \A s \in Servers :
    LateEntry(s) =>
      IF obs.pre.result > 0
      THEN FedSuccess(obs.path) /\ ~FedFailure(obs.path)
      ELSE /\ FedFailure(obs.path) /\ ~FedSuccess(obs.path)
           /\ AfterFailure(obs.pre, srv[s])
           /\ (obs.pre.result = 0) <=> InPath(obs.path, "timeout")

\* a probe with no result, entered two ticks after its deadline, took the
\* last of the cushion of an UP server
C12_Witness ==
  /\ LateEntry(1)
  /\ InPath(obs.path, "timeout")
  /\ now >= obs.e_in + 2
  /\ obs.pre.health = obs.pre.rise + 1 /\ srv[1].health = srv[1].rise

\* the probe of server s is in flight and its result is failure
FailedInFlight(s) == srv[s].curfd # NoFd /\ srv[s].result = -1

C13_Step ==
  \A s \in Servers :
    FailedInFlight(s) =>
      IF obs'.fresh /\ obs'.who = s
      THEN /\ InPath(obs'.path, "failure")
           /\ ~FedSuccess(obs'.path)
           /\ AfterFailure(srv[s], srv'[s])
      ELSE /\ srv'[s].result = -1
           /\ srv'[s].curfd = srv[s].curfd
           /\ srv'[s].health = srv[s].health
           /\ \A fd \in Fds :
                (fdtab[fd].owner = s /\ fdtab'[fd].rd) => fdtab[fd].rd

WaitingTick(s) ==
  /\ obs'.fresh /\ obs'.who = s
  /\ srv[s].result = 0
  /\ expire[s] > now

C14_Step ==
  \A s \in Servers :
    WaitingTick(s) =>
      /\ srv' = srv /\ px' = px /\ expire' = expire
      /\ fdtab' = fdtab /\ osfd' = osfd /\ sess' = sess
      /\ obs'.out = <<>>
      /\ obs'.path \in {<<"notyet">>, <<"wait">>}

\* C14: a tick entered with result unset and expire > now, with or without a
\* probe in flight, changes nothing: servers (health, flags, result, curfd,
\* failed_checks, down_trans, queues), deadlines, fd table, descriptors,
\* backend counters and queue, and sessions are as before, and it makes no
\* call but the re-queue; so any number of such ticks in a row leave the
\* state one of them leaves.
C14_Idempotent == [][C14_Step]_vars

\* a tick that found a probe in flight, without result, before its deadline
C14_Witness ==
  /\ Returned(1)
  /\ obs.path = <<"wait">>
  /\ obs.pre.result = 0 /\ obs.pre.curfd # NoFd /\ obs.e_in > now
  /\ srv[1] = obs.pre

\* the step is process_chk(s), entered with checking disabled for s and no
\* probe in flight
DisabledTick(s) ==
  /\ obs'.fresh /\ obs'.who = s
  /\ ~srv[s].checked \/ px.state = "PR_STSTOPPED"
  /\ srv[s].curfd = NoFd

C15_Step ==
  \A s \in DOMAIN expire :
    DisabledTick(s) =>
      /\ srv' = srv /\ px' = px /\ fdtab' = fdtab /\ osfd' = osfd /\ sess' = sess
      /\ obs'.out = <<>>
      /\ ~InPath(obs'.path, "new")
      /\ expire'[s] > now
      /\ \E k \in Multiples :
           /\ expire'[s] = expire[s] + k * srv[s].inter
           /\ (k = 0) <=> (expire[s] > now)
           /\ k > 0 => expire'[s] - srv[s].inter <= now

\* C15: while checking is disabled for a server (CHECKED clear or the proxy
\* STSTOPPED) and no probe is in flight, a tick starts no probe and makes no
\* call, leaves health, RUNNING, result, curfd, failed_checks and down_trans
\* (and all the rest of the state) as they were, and only moves expire by the
\* least whole number of intervals that puts it after now, so the task is
\* queued again for a later tick.
C15_DisabledTick == [][C15_Step]_vars

\* a tick of a stopped proxy, two intervals or more after the deadline, on a
\* server that had been probed before
C15_Witness ==
  /\ Returned(1)
  /\ obs.path = <<"disabled">>
  /\ px.state = "PR_STSTOPPED"
  /\ srv[1].checked /\ srv[1].down_trans >= 1
  /\ expire[1] >= obs.e_in + 2 * srv[1].inter

Min(a, b) == IF a <= b THEN a ELSE b

\* C16 (as claimed): a successful probe leaves health at
\* min(health + 1, rise + fall - 1), and emits no edge on an UP server.
C16_Claim ==
  \A s \in Servers :
    (Returned(s) /\ FedSuccess(obs.path)) =>
      /\ srv[s].health = Min(obs.pre.health + 1, Cap(obs.pre))
      /\ obs.pre.running => NoEdge(s)

\* C16 (amended): a successful probe leaves health at health + 1 when that
\* is still below rise, and at rise + fall - 1 otherwise: the first success
\* that reaches rise, and every success on an UP server, restores the full
\* cushion at once.  A success on an UP server emits no edge.  With rise = 2,
\* fall = 3, from health = 2, UP, successes give 2, 4, 4, 4.
C16_Amended ==
  \A s \in Servers :
    (Returned(s) /\ FedSuccess(obs.path)) =>
      /\ srv[s].health = IF obs.pre.health + 1 < obs.pre.rise
                         THEN obs.pre.health + 1
                         ELSE Cap(obs.pre)
      /\ obs.pre.running => NoEdge(s)

\* a success fed to the UP server at health == rise == 2 with fall == 3
C16_Witness ==
  /\ Returned(1) /\ FedSuccess(obs.path)
  /\ obs.pre.running /\ obs.pre.health = 2 /\ obs.pre.rise = 2 /\ obs.pre.fall = 3
  /\ srv[1].health = 4

\* the step is process_chk(s) and it sets RUNNING
UpEdgeStep(s) == obs'.fresh /\ obs'.who = s /\ ~srv[s].running /\ srv'[s].running

\* the arguments of the events e of out, in order
RECURSIVE ArgsOf(_, _)
ArgsOf(out, e) ==
  IF out = <<>> THEN <<>>
  ELSE IF Head(out).ev = e THEN <<Head(out).arg>> \o ArgsOf(Tail(out), e)
  ELSE ArgsOf(Tail(out), e)

C17_Step ==
  \A s \in Servers :
    UpEdgeStep(s) =>
      LET q == px.pendconns
          n == IF srv[s].maxconn = 0 THEN Len(q) ELSE Min(Len(q), srv[s].maxconn)
      IN /\ px'.pendconns = SubSeq(q, n + 1, Len(q))
         /\ ArgsOf(obs'.out, "free") = SubSeq(q, 1, n)
         /\ ArgsOf(obs'.out, "wake") = SubSeq(q, 1, n)
         /\ \A i \in 1..n : sess'[q[i]] = [sess[q[i]] EXCEPT !.srv = s]
         /\ \A i \in Sessions : i \notin {q[j] : j \in 1..n} => sess'[i] = sess[i]
         /\ \A t \in Servers : srv'[t].pendconns = srv[t].pendconns

\* C17: on an UP edge of S, pending connections are taken from the head of
\* the backend-wide queue, in its order: as many as the queue holds when
\* S.maxconn == 0, and at most srv_dynamic_maxconn(S) otherwise; each taken
\* entry has its session's srv set to S, is freed once and its task woken
\* once; the entries not taken stay in the backend queue in their order, and
\* their sessions and the server queues are untouched.
C17_UpDrain == [][C17_Step]_vars

\* an UP edge of a server with maxconn == 1 that found sessions 2 and 1
\* waiting on the backend, in that order: 2 was taken, 1 still waits
C17_Witness ==
  /\ Returned(1) /\ WentUp(1)
  /\ srv[1].maxconn = 1
  /\ px.pendconns = <<1>>
  /\ ArgsOf(obs.out, "wake") = <<2>>
  /\ sess[2].srv = 1

\* the positions of the events e in out
Positions(out, e) == {i \in 1..Len(out) : out[i].ev = e}

\* C18: an invocation emits the EMERG alert, once, exactly when it is a DOWN
\* edge that leaves srv_act == 0 and srv_bck == 0 after its recount, that is,
\* when the last UP server of the backend went DOWN; the EMERG alert comes
\* after the ALERT log of that edge; there is none on an UP edge, on a failure
\* without edge, or while a server of the backend is still UP.
C18_Emerg ==
  \A s \in Servers :
    Returned(s) =>
      /\ CountEv(obs.out, "EMERG") =
           (IF WentDown(s) /\ px.srv_act = 0 /\ px.srv_bck = 0 THEN 1 ELSE 0)
      /\ \A i \in Positions(obs.out, "EMERG") :
           \E j \in Positions(obs.out, "ALERT") : j < i
      /\ (WentDown(s) /\ \A t \in Servers : ~srv[t].running)
           => CountEv(obs.out, "EMERG") = 1
      /\ (\E t \in Servers : srv[t].running) => CountEv(obs.out, "EMERG") = 0
      /\ ~WentDown(s) => CountEv(obs.out, "EMERG") = 0

\* the backup server went DOWN after the active one: the EMERG alert follows
\* the ALERT log; the active server had gone DOWN without one
C18_Witness ==
  /\ Returned(2) /\ WentDown(2)
  /\ ~srv[1].running /\ srv[1].down_trans = 1
  /\ CountEv(obs.out, "EMERG") = 1

\* socket() fails, or the descriptor is not below global.maxsock, or
\* fcntl(O_NONBLOCK) or setsockopt(TCP_NODELAY) fails
SetupFails(in) ==
  in.sock = NoFd \/ in.sock >= global_maxsock \/ ~in.fcntl_ok \/ ~in.nodelay_ok

\* the set-up succeeds and the bind to the source address fails
BindFails(s, in) ==
  ~SetupFails(in) /\ (srv[s].bind_src \/ px.bind_src) /\ ~in.bind_ok

\* expire e1 is e0 moved by the least number (>= 1) of intervals past now
Rephased(e0, e1, inter) ==
  /\ e1 > now
  /\ e1 - inter <= now
  /\ \E k \in Multiples \ {0} : e1 = e0 + k * inter

\* C19: from every state in which a tick of server s starts a probe, and for
\* every outcome of its system calls: if socket() fails, or the descriptor
\* is not below the maximum, or making it non-blocking / TCP_NODELAY fails,
\* the tick returns with result unset, health, RUNNING, failed_checks,
\* down_trans, the queues, the fd table and the backend unchanged, curfd
\* none, the socket (if one was created) closed, once, and expire moved by
\* whole intervals past now; if the bind fails, the tick stores result =
\* failure, logs an alert, feeds one failed probe to the state machine,
\* closes the socket and leaves curfd none.
C19_SetupFailure ==
  \A s \in DOMAIN expire :
    StartsProbe(s) =>
      \A in \in ChkInputs :
        in.sock \notin osfd =>
          LET w == new_chk(World, s, in)
          IN /\ SetupFails(in) =>
                  /\ w.srv = [srv EXCEPT ![s].result = 0]
                  /\ w.px = px /\ w.fdtab = fdtab /\ w.osfd = osfd /\ w.sess = sess
                  /\ w.path = <<"new", "nothing", "notyet">>
                  /\ w.out = IF in.sock = NoFd THEN <<>> ELSE <<Ev("close", in.sock)>>
                  /\ Rephased(expire[s], w.expire[s], srv[s].inter)
             /\ BindFails(s, in) =>
                  /\ w.srv[s].result = -1
                  /\ w.path = <<"new", "syncfail", "notyet">>
                  /\ AfterFailure(srv[s], w.srv[s])
                  /\ CountEv(w.out, "Alert_bind") = 1
                  /\ CountEvArg(w.out, "close", in.sock) = 1
                  /\ CountEv(w.out, "close_EBADF") = 0
                  /\ w.fdtab = fdtab /\ w.osfd = osfd
                  /\ Rephased(expire[s], w.expire[s], srv[s].inter)

\* a tick whose socket() failed, two intervals or more after the deadline, on
\* a server that still held the result of its last probe
C19_Witness ==
  /\ Returned(1)
  /\ obs.path = <<"new", "nothing", "notyet">>
  /\ obs.out = <<>>
  /\ obs.pre.result = -1 /\ srv[1].result = 0
  /\ srv[1] = [obs.pre EXCEPT !.result = 0]
  /\ expire[1] >= obs.e_in + 2 * srv[1].inter

\* the labels of path that consume a probe, in order
ConsumedLabels(path) ==
  SelectSeq(path, LAMBDA l : l \in {"success", "failure", "timeout"})

C20_Step ==
  \A s \in DOMAIN expire :
    /\ (obs'.fresh /\ obs'.who = s /\ srv[s].curfd # NoFd /\ tv_isle(expire[s], now))
         => srv'[s].curfd = NoFd
    /\ (srv[s].curfd # NoFd /\ srv'[s].curfd = NoFd)
         => /\ obs'.fresh /\ obs'.who = s
            /\ Len(ConsumedLabels(obs'.path)) = 1
            /\ srv[s].result > 0 <=> FedSuccess(obs'.path)
            /\ srv[s].result <= 0 <=> FedFailure(obs'.path)

\* a probe whose deadline lies within the clock of the model is resolved
Resolved(s) ==
  (srv[s].curfd # NoFd /\ expire[s] <= MaxNow) ~> (srv[s].curfd = NoFd)

\* C20: every probe is eventually resolved.  With time advancing and the
\* timer wheel running the tasks whose deadline has passed, whenever
\* curfd != none it eventually becomes none again, whether or not a readiness
\* callback fires and whether or not the proxy is stopped meanwhile; the
\* first entry of the task with expire <= now resolves it at the latest; and
\* the step that resolves it feeds its outcome to the state machine once:
\* as a success when result is success, as a failure otherwise.
C20_Resolved ==
  /\ \A s \in {1} : Resolved(s)
  /\ [][C20_Step]_vars

\* a probe consumed on timeout, no callback having stored a result, after the
\* proxy was stopped
C20_Witness ==
  /\ Returned(1)
  /\ obs.pre.curfd # NoFd /\ obs.pre.result = 0
  /\ px.state = "PR_STSTOPPED"
  /\ obs.path = <<"timeout", "notyet">>
  /\ srv[1].curfd = NoFd

====
